---- MODULE Spec2Model ----
(***************************************************************************)
(* A model of the blog utilities of cbwinslow/astro-blog:                  *)
(*   - BlogPostManager   (src/src/utils/BlogPostManager.ts)                *)
(*   - SEOMetadataBuilder (src/unnamed/part_000)                           *)
(*   - ContentValidator  (src/BLOG_TEMPLATE_FEATURES.md, lines 92-230)     *)
(*                                                                         *)
(* JavaScript values are modelled as follows.                              *)
(*   string          a sequence of one-character strings                   *)
(*   optional value  None (undefined) or Some(v)                           *)
(*   array           a sequence; an array OBJECT is a cell of `heap`, and  *)
(*                   a reference to it is the cell's index                 *)
(*   number c / d    the fraction [num |-> c, den |-> d]; NaN is 0/0 and   *)
(*                   Infinity is 1/0                                       *)
(***************************************************************************)
EXTENDS Integers, Sequences, FiniteSets, TLC

VARIABLES
    \* ---- BlogPostManager
    input,      \* the array handed to the constructor (post references)
    heap,       \* array objects; heap[1] is this.posts
    ret,        \* what the last call handed back to the caller
    related,    \* the RelatedPost[] the last findRelatedPosts returned
    last,       \* the last operation and its arguments
    mutations,  \* how many times the caller mutated a returned collection
    \* ---- SEOMetadataBuilder
    metadataOf, \* builder -> reference of its this.metadata (0: no such builder)
    metaHeap,   \* metadata objects, by reference
    blocks,     \* openGraph / twitter / schema objects, by field and reference
    held,       \* the metadata reference the caller kept from getPartial()/build()
    outcome,    \* the last builder call and how it ended
    fpost,      \* the post handed to fromBlogPost
    fbase,      \* the baseUrl handed to fromBlogPost
    fbuilt,     \* None, or Some(how fromBlogPost(fpost, fbase).build() ended)
    \* ---- ContentValidator
    vpost,      \* the post handed to validatePost
    vnow,       \* the clock: what new Date() gives during the call
    vresult,    \* None, or Some(the ValidationResult returned)
    vposts,     \* the posts handed to findDuplicateTitles (their titles; a
                \* post object is identified by its position)
    vduplicates,\* None, or Some(the Map returned, as its entries in order)
    vtags,      \* the array handed to sanitizeTags
    vsanitized  \* None, or Some(the array returned)

managerVars == <<input, heap, ret, related, last, mutations>>
derivedVars == <<fpost, fbase, fbuilt>>
builderVars == <<metadataOf, metaHeap, blocks, held, outcome, derivedVars>>
staticVars == <<vposts, vduplicates, vtags, vsanitized>>
validatorVars == <<vpost, vnow, vresult, staticVars>>
vars == <<managerVars, builderVars, validatorVars>>

(***************************************************************************)
(* Bounds of the model.                                                    *)
(***************************************************************************)
MaxPosts == 3        \* longest input collection
MaxLimit == 4        \* largest explicit limit / n argument
MaxMutations == 1    \* caller mutations of returned collections per run
MaxTagLength == 4    \* longest tag sanitized character by character
MaxTags == 3         \* longest array handed to sanitizeTags

(***************************************************************************)
(* JavaScript helpers.                                                     *)
(***************************************************************************)
None == {}
Some(v) == {v}
Val(o) == CHOOSE v \in o : TRUE
OrDefault(arg, d) == IF arg = None THEN d ELSE Val(arg)

Min(a, b) == IF a < b THEN a ELSE b
Max(a, b) == IF a > b THEN a ELSE b
Range(s) == {s[i] : i \in DOMAIN s}

\* Array.prototype.includes
ArrayIncludes(arr, x) == \E i \in DOMAIN arr : arr[i] = x

\* Array.prototype.slice(start, end), negative indices counted from the end
Slice(arr, start, end) ==
    LET len == Len(arr)
        k == IF start < 0 THEN Max(len + start, 0) ELSE Min(start, len)
        final == IF end < 0 THEN Max(len + end, 0) ELSE Min(end, len)
    IN SubSeq(arr, k + 1, final)

\* Array.prototype.reverse
Reverse(arr) == [i \in 1..Len(arr) |-> arr[Len(arr) + 1 - i]]

\* String.prototype.toLowerCase, on the alphabet the model uses
LowerChar(c) ==
    CASE c = "A" -> "a"
      [] c = "B" -> "b"
      [] c = "C" -> "c"
      [] c = "H" -> "h"
      [] c = "I" -> "i"
      [] c = "N" -> "n"
      [] c = "O" -> "o"
      [] c = "R" -> "r"
      [] c = "T" -> "t"
      [] c = "W" -> "w"
      [] OTHER -> c
ToLowerCase(s) == [i \in 1..Len(s) |-> LowerChar(s[i])]

\* String.prototype.includes
StringIncludes(s, sub) ==
    \E i \in 0..(Len(s) - Len(sub)) : SubSeq(s, i + 1, i + Len(sub)) = sub

(***************************************************************************)
(* Numbers produced by a division of two array lengths.                    *)
(***************************************************************************)
NaN == [num |-> 0, den |-> 0]
Infinity == [num |-> 1, den |-> 0]
Zero == [num |-> 0, den |-> 1]
One == [num |-> 1, den |-> 1]
IsNaN(x) == x.den = 0 /\ x.num = 0

\* c / d for lengths c, d >= 0
Divide(c, d) ==
    IF d = 0 THEN (IF c = 0 THEN NaN ELSE Infinity) ELSE [num |-> c, den |-> d]

\* x > y and x === y; every comparison with NaN is false
NumGt(x, y) == ~IsNaN(x) /\ ~IsNaN(y) /\ x.num * y.den > y.num * x.den
NumEq(x, y) == ~IsNaN(x) /\ ~IsNaN(y) /\ x.num * y.den = y.num * x.den
NumGe(x, y) == NumGt(x, y) \/ NumEq(x, y)

\* the sign of x - y: 1, 0, -1; NaN (also Infinity - Infinity) is neither
\* negative nor positive
SignOfDifference(x, y) ==
    IF NumGt(x, y) THEN 1 ELSE IF NumGt(y, x) THEN -1 ELSE 0

(***************************************************************************)
(* The posts.  A post object is named by its key; Catalog gives its        *)
(* content.  Tag lists are arrays: post 5 repeats a tag, post 4 has none.  *)
(* Posts 1 and 6 carry the same id.  Publish timestamps tie.               *)
(***************************************************************************)
Str1(c) == <<c>>
Catalog ==
    <<  [id |-> "p1", pub |-> 5, tags |-> <<Str1("a")>>,
         author |-> "ann", featured |-> Some(TRUE),
         title |-> <<"T", "a">>, description |-> <<"o">>],
        [id |-> "p2", pub |-> 5, tags |-> <<Str1("a"), Str1("b")>>,
         author |-> "bob", featured |-> None,
         title |-> <<"b">>, description |-> <<"I", "c">>],
        [id |-> "p3", pub |-> 2, tags |-> <<Str1("c")>>,
         author |-> "ann", featured |-> Some(FALSE),
         title |-> <<"c">>, description |-> <<"o">>],
        [id |-> "p4", pub |-> 3, tags |-> <<>>,
         author |-> "bob", featured |-> Some(TRUE),
         title |-> <<"i">>, description |-> <<>>],
        [id |-> "p5", pub |-> 3, tags |-> <<Str1("a"), Str1("a")>>,
         author |-> "ann", featured |-> None,
         title |-> <<"o">>, description |-> <<"t">>],
        [id |-> "p1", pub |-> 2, tags |-> <<Str1("a"), Str1("b")>>,
         author |-> "cy", featured |-> Some(FALSE),
         title |-> <<"A">>, description |-> <<"b">>],
        [id |-> "p7", pub |-> 5, tags |-> <<Str1("B")>>,
         author |-> "cy", featured |-> None,
         title |-> <<"t">>, description |-> <<"c">>]  >>

Keys == DOMAIN Catalog
Post(k) == Catalog[k]

\* the posts the manager is exercised with when every query is called:
\* equal and distinct dates, shared and disjoint tags, one without tags
ManagerKeys == {1, 2, 3, 4}

\* the arrays of distinct post objects among `keys`, of length at most n
Collections(keys, n) ==
    {s \in UNION {[1..m -> keys] : m \in 0..n} :
        \A i, j \in DOMAIN s : i # j => s[i] # s[j]}

(***************************************************************************)
(* getSortedPosts: its file is not among the sources.  Modelled from the   *)
(* specification: a copy of the input, sorted by descending publish        *)
(* timestamp, posts with equal timestamps in their input order.            *)
(***************************************************************************)
RECURSIVE InsertByDate(_, _)
InsertByDate(sorted, k) ==
    IF sorted = <<>> THEN <<k>>
    ELSE IF Post(sorted[Len(sorted)]).pub < Post(k).pub
         THEN Append(InsertByDate(SubSeq(sorted, 1, Len(sorted) - 1), k),
                     sorted[Len(sorted)])
         ELSE Append(sorted, k)

RECURSIVE getSortedPosts(_)
getSortedPosts(posts) ==
    IF posts = <<>> THEN <<>>
    ELSE InsertByDate(getSortedPosts(SubSeq(posts, 1, Len(posts) - 1)),
                      posts[Len(posts)])

(***************************************************************************)
(* BlogPostManager.  `posts` below is the content of this.posts.           *)
(***************************************************************************)
\* (mutant) the constructor keeps the input order
Constructor_Unsorted(posts) == posts

\* constructor: this.posts = getSortedPosts(posts)
Constructor(posts) == getSortedPosts(posts)

getPostsByTag(posts, tag) ==
    SelectSeq(posts, LAMBDA k : ArrayIncludes(Post(k).tags, tag))

getFeaturedPosts(posts) ==
    SelectSeq(posts, LAMBDA k : Post(k).featured = Some(TRUE))

getPostsByAuthor(posts, author) ==
    SelectSeq(posts, LAMBDA k : Post(k).author = author)

DefaultRecentLimit == 5
\* (mutant) slice(0, limit - 1)
getRecentPosts_OffByOne(posts, limit) ==
    Slice(posts, 0, OrDefault(limit, DefaultRecentLimit) - 1)

getRecentPosts(posts, limit) ==
    Slice(posts, 0, OrDefault(limit, DefaultRecentLimit))

\* (mutant) the reference post is not filtered out
IsOtherPost_KeepAll(k, currentPost) == TRUE

\* .filter(post => post.id !== currentPost.id)
IsOtherPost(k, currentPost) == Post(k).id # Post(currentPost).id

\* post.data.tags.filter(tag => currentTags.includes(tag))
CommonTags(k, currentTags) ==
    SelectSeq(Post(k).tags, LAMBDA tag : ArrayIncludes(currentTags, tag))

\* commonTags.length / currentTags.length
RelevanceScore(k, currentTags) ==
    Divide(Len(CommonTags(k, currentTags)), Len(currentTags))

\* (mutant) item.relevanceScore !== 0, which NaN passes
HasRelevance_NotZero(item) == ~NumEq(item.relevanceScore, Zero)

\* .filter(item => item.relevanceScore > 0)
HasRelevance(item) == NumGt(item.relevanceScore, Zero)

\* (mutant) a.relevanceScore - b.relevanceScore: ascending
CompareRelevance_Ascending(a, b) ==
    SignOfDifference(a.relevanceScore, b.relevanceScore)

\* (a, b) => b.relevanceScore - a.relevanceScore
CompareRelevance(a, b) == SignOfDifference(b.relevanceScore, a.relevanceScore)

\* .sort(compare): stable (ECMAScript 2019).  An insertion sort: each item
\* moves left past the items that compare greater than it.
RECURSIVE InsertByRelevance(_, _)
InsertByRelevance(sorted, item) ==
    IF sorted = <<>> THEN <<item>>
    ELSE IF CompareRelevance(sorted[Len(sorted)], item) > 0
         THEN Append(InsertByRelevance(SubSeq(sorted, 1, Len(sorted) - 1), item),
                     sorted[Len(sorted)])
         ELSE Append(sorted, item)

RECURSIVE SortByRelevance(_)
SortByRelevance(items) ==
    IF items = <<>> THEN <<>>
    ELSE InsertByRelevance(SortByRelevance(SubSeq(items, 1, Len(items) - 1)),
                           items[Len(items)])

DefaultRelatedLimit == 3
findRelatedPosts(posts, currentPost, limit) ==
    LET currentTags == Post(currentPost).tags
        others == SelectSeq(posts, LAMBDA k : IsOtherPost(k, currentPost))
        scored == [i \in 1..Len(others) |->
                     [post |-> others[i],
                      relevanceScore |-> RelevanceScore(others[i], currentTags)]]
        scoredPosts == SortByRelevance(SelectSeq(scored, HasRelevance))
    IN Slice(scoredPosts, 0, OrDefault(limit, DefaultRelatedLimit))

\* this.posts.find(post => post.id === id): the first match, or undefined
getPostById(posts, id) ==
    LET hits == SelectSeq(posts, LAMBDA k : Post(k).id = id)
    IN IF hits = <<>> THEN None ELSE Some(hits[1])

searchPosts(posts, keyword) ==
    LET lowerKeyword == ToLowerCase(keyword)
    IN SelectSeq(posts, LAMBDA k :
          \/ StringIncludes(ToLowerCase(Post(k).title), lowerKeyword)
          \/ StringIncludes(ToLowerCase(Post(k).description), lowerKeyword)
          \/ \E i \in DOMAIN Post(k).tags :
                StringIncludes(ToLowerCase(Post(k).tags[i]), lowerKeyword))

getPostCount(posts) == Len(posts)

\* new Date(t).getFullYear(); a timestamp counts half-years from 2024
GetFullYear(t) == 2024 + (t \div 2)

\* groupPostsByYear: the Map, as its entries in insertion order; every
\* entry holds an array of its own
RECURSIVE GroupFrom(_, _)
GroupFrom(groupedPosts, rest) ==
    IF rest = <<>> THEN groupedPosts
    ELSE LET post == Head(rest)
             year == GetFullYear(Post(post).pub)
             at == {i \in DOMAIN groupedPosts : groupedPosts[i].year = year}
         IN IF at = {}
            THEN GroupFrom(Append(groupedPosts,
                                  [year |-> year, yearPosts |-> <<post>>]),
                           Tail(rest))
            ELSE GroupFrom([groupedPosts EXCEPT
                              ![CHOOSE i \in at : TRUE].yearPosts = Append(@, post)],
                           Tail(rest))

groupPostsByYear(posts) == GroupFrom(<<>>, posts)

(***************************************************************************)
(* The arguments the caller passes.                                        *)
(***************************************************************************)
TagArgs == {Str1("a"), Str1("b"), Str1("c")}
AuthorArgs == {"ann", "bob", "zed"}
IdArgs == {"p1", "p2", "p9"}
KeywordArgs == {<<"A">>, <<"t">>, <<"z">>}
LimitArgs == {None} \cup {Some(n) : n \in 0..MaxLimit}

\* what a call hands back: a reference to one array, a Map of arrays, a
\* RelatedPost[] (held in `related`), or a plain value
Returned(kind, refs, value) == [kind |-> kind, refs |-> refs, value |-> value]
Called(op, arg) == [op |-> op, arg |-> arg]

this_posts == heap[1]

\* the state right after `new BlogPostManager(input)`
ManagerInit(keys) ==
    /\ input \in Collections(keys, MaxPosts)
    /\ heap = <<Constructor(input)>>
    /\ ret = Returned("none", {}, None)
    /\ related = <<>>
    /\ last = Called("constructor", None)
    /\ mutations = 0

\* a query that returns a newly built array
ReturnsFreshArray(op, arg, result) ==
    /\ heap' = <<this_posts, result>>
    /\ ret' = Returned("array", {2}, None)
    /\ related' = <<>>
    /\ last' = Called(op, arg)
    /\ UNCHANGED <<input, mutations, builderVars, validatorVars>>

\* a query that returns a value and no collection
ReturnsValue(op, arg, kind, value) ==
    /\ heap' = <<this_posts>>
    /\ ret' = Returned(kind, {}, value)
    /\ related' = <<>>
    /\ last' = Called(op, arg)
    /\ UNCHANGED <<input, mutations, builderVars, validatorVars>>

Call_getPostsByTag ==
    \E tag \in TagArgs :
        ReturnsFreshArray("getPostsByTag", tag, getPostsByTag(this_posts, tag))

Call_getFeaturedPosts ==
    ReturnsFreshArray("getFeaturedPosts", None, getFeaturedPosts(this_posts))

Call_getPostsByAuthor ==
    \E author \in AuthorArgs :
        ReturnsFreshArray("getPostsByAuthor", author,
                          getPostsByAuthor(this_posts, author))

Call_getRecentPosts ==
    \E limit \in LimitArgs :
        ReturnsFreshArray("getRecentPosts", limit, getRecentPosts(this_posts, limit))

Call_searchPosts ==
    \E keyword \in KeywordArgs :
        ReturnsFreshArray("searchPosts", keyword, searchPosts(this_posts, keyword))

Call_getPostById ==
    \E id \in IdArgs :
        ReturnsValue("getPostById", id, "post", getPostById(this_posts, id))

Call_getPostCount ==
    ReturnsValue("getPostCount", None, "number", getPostCount(this_posts))

\* getAllPosts: return this.posts, the internal array itself
Call_getAllPosts ==
    /\ heap' = <<this_posts>>
    /\ ret' = Returned("array", {1}, None)
    /\ related' = <<>>
    /\ last' = Called("getAllPosts", None)
    /\ UNCHANGED <<input, mutations, builderVars, validatorVars>>

Call_groupPostsByYear ==
    LET groupedPosts == groupPostsByYear(this_posts)
        n == Len(groupedPosts)
    IN /\ heap' = <<this_posts>> \o [i \in 1..n |-> groupedPosts[i].yearPosts]
       /\ ret' = Returned("map", {i + 1 : i \in 1..n},
                          [i \in 1..n |-> groupedPosts[i].year])
       /\ related' = <<>>
       /\ last' = Called("groupPostsByYear", None)
       /\ UNCHANGED <<input, mutations, builderVars, validatorVars>>

FindRelated(currentPost, limit) ==
    /\ heap' = <<this_posts>>
    /\ ret' = Returned("related", {}, None)
    /\ related' = findRelatedPosts(this_posts, currentPost, limit)
    /\ last' = Called("findRelatedPosts", [currentPost |-> currentPost, limit |-> limit])
    /\ UNCHANGED <<input, mutations, builderVars, validatorVars>>

\* the page code's call: findRelatedPosts(post, 3) or findRelatedPosts(post)
Call_findRelatedPosts ==
    \E currentPost \in ManagerKeys, limit \in {None, Some(DefaultRelatedLimit)} :
        FindRelated(currentPost, limit)

\* every reference post with every limit
Call_findRelatedPostsAny ==
    \E currentPost \in Keys, limit \in LimitArgs :
        FindRelated(currentPost, limit)

(***************************************************************************)
(* The caller mutates a collection it was handed: push, pop or reverse.    *)
(***************************************************************************)
MutationOps == {"push", "pop", "reverse"}
Mutated(arr, op, x) ==
    CASE op = "push" -> Append(arr, x)
      [] op = "pop" -> SubSeq(arr, 1, Len(arr) - 1)
      [] op = "reverse" -> Reverse(arr)

CallerMutatesArray ==
    /\ mutations < MaxMutations
    /\ input # <<>>
    /\ \E r \in ret.refs, op \in MutationOps :
          heap' = [heap EXCEPT ![r] = Mutated(@, op, input[1])]
    /\ mutations' = mutations + 1
    /\ last' = Called("mutate", None)
    /\ UNCHANGED <<input, ret, related, builderVars, validatorVars>>

CallerMutatesRelated ==
    /\ mutations < MaxMutations
    /\ ret.kind = "related"
    /\ related # <<>>
    /\ \E op \in MutationOps : related' = Mutated(related, op, related[1])
    /\ mutations' = mutations + 1
    /\ last' = Called("mutate", None)
    /\ UNCHANGED <<input, heap, ret, builderVars, validatorVars>>

ManagerNext ==
    \/ Call_getPostsByTag
    \/ Call_getFeaturedPosts
    \/ Call_getPostsByAuthor
    \/ Call_getRecentPosts
    \/ Call_findRelatedPosts
    \/ Call_getPostById
    \/ Call_searchPosts
    \/ Call_getAllPosts
    \/ Call_getPostCount
    \/ Call_groupPostsByYear
    \/ CallerMutatesArray
    \/ CallerMutatesRelated



(***************************************************************************)
(* SEOMetadataBuilder.  A builder holds a reference to its metadata        *)
(* object; the metadata object holds references to its openGraph, twitter  *)
(* and schema objects.  Objects no reference leads to are collected: their *)
(* cells return to EmptyMetadata / "free".                                 *)
(***************************************************************************)
Builders == {"b", "c"}
MetaRefs == 1..3
BlockFields == {"openGraph", "twitter", "schema"}
BlockRefs == 1..3

\* private metadata: Partial<SeoMetadata> = {}
EmptyMetadata ==
    [title |-> None, description |-> None, canonical |-> None,
     openGraph |-> None, twitter |-> None, schema |-> None]

\* !value, for an optional string: undefined and "" are falsy
Falsy(o) == o = None \/ Val(o) = <<>>

Exists(x) == metadataOf[x] # 0
Metadata(x) == metaHeap[metadataOf[x]]
Outcome(op, x, status, ref) ==
    [op |-> op, builder |-> x, status |-> status, ref |-> ref]

SmallestNotIn(S, used) == CHOOSE i \in S \ used : \A j \in S \ used : i <= j

\* the metadata objects some reference leads to
Live(mo, hd) == ({mo[x] : x \in Builders} \cup {hd}) \ {0}

\* the next state of the object graph, unreachable objects collected
Commit(mo, mh, bl, hd) ==
    /\ metadataOf' = mo
    /\ held' = hd
    /\ metaHeap' = [i \in MetaRefs |->
                      IF i \in Live(mo, hd) THEN mh[i] ELSE EmptyMetadata]
    /\ blocks' = [f \in BlockFields |-> [n \in BlockRefs |->
                      IF \E i \in Live(mo, hd) : mh[i][f] = Some(n)
                      THEN bl[f][n] ELSE "free"]]

\* a reference for a new object of field f, stored into metadata object m
NewBlockRef(f, m) ==
    SmallestNotIn(BlockRefs,
        {n \in BlockRefs :
            \E i \in Live(metadataOf, held) \ {m} : metaHeap[i][f] = Some(n)})

\* a reference for a new metadata object that builder x will hold
NewMetaRef(x) ==
    SmallestNotIn(MetaRefs,
        ({metadataOf[y] : y \in Builders \ {x}} \cup {held}) \ {0})

\* a post as fromBlogPost reads it
NoPost ==
    [id |-> <<>>, title |-> <<>>, description |-> <<>>, author |-> <<>>,
     canonicalURL |-> None, ogImage |-> None, pubDatetime |-> 1,
     modDatetime |-> None]

\* fromBlogPost not in use
DerivedIdle ==
    /\ fpost = NoPost
    /\ fbase = <<>>
    /\ fbuilt = None

\* the state right after `new SEOMetadataBuilder()`
BuilderInit ==
    /\ DerivedIdle
    /\ metadataOf = [x \in Builders |-> IF x = "b" THEN 1 ELSE 0]
    /\ metaHeap = [i \in MetaRefs |-> EmptyMetadata]
    /\ blocks = [f \in BlockFields |-> [n \in BlockRefs |-> "free"]]
    /\ held = 0
    /\ outcome = Outcome("new", "b", "ok", 0)

setBasicMetadata(metadata, title, description) ==
    [metadata EXCEPT !.title = Some(title), !.description = Some(description)]

setCanonical(metadata, url) == [metadata EXCEPT !.canonical = Some(url)]

\* setOpenGraph, setTwitter, setSchema: store the reference passed in
setOpenGraph(metadata, og) == [metadata EXCEPT !.openGraph = Some(og)]
setTwitter(metadata, twitter) == [metadata EXCEPT !.twitter = Some(twitter)]
setSchema(metadata, schema) == [metadata EXCEPT !.schema = Some(schema)]

\* (mutant) build() checks the title only
BuildThrows_TitleOnly(metadata) == Falsy(metadata.title)

\* build(): if (!this.metadata.title || !this.metadata.description) throw
BuildThrows(metadata) == Falsy(metadata.title) \/ Falsy(metadata.description)

\* clone(): builder.metadata = { ...this.metadata }, a copy of the top-level
\* fields: the nested objects are the same objects
clone(metadata) == [f \in DOMAIN metadata |-> metadata[f]]

Call_setBasicMetadata(x, title, description) ==
    /\ Exists(x)
    /\ Commit(metadataOf,
              [metaHeap EXCEPT ![metadataOf[x]] =
                    setBasicMetadata(@, title, description)],
              blocks, held)
    /\ outcome' = Outcome("setBasicMetadata", x, "ok", 0)
    /\ UNCHANGED <<managerVars, validatorVars, derivedVars>>

Call_setCanonical(x, url) ==
    /\ Exists(x)
    /\ Commit(metadataOf,
              [metaHeap EXCEPT ![metadataOf[x]] = setCanonical(@, url)],
              blocks, held)
    /\ outcome' = Outcome("setCanonical", x, "ok", 0)
    /\ UNCHANGED <<managerVars, validatorVars, derivedVars>>

\* the caller passes a newly made object
Call_setOpenGraph(x) ==
    /\ Exists(x)
    /\ LET og == NewBlockRef("openGraph", metadataOf[x])
       IN Commit(metadataOf,
                 [metaHeap EXCEPT ![metadataOf[x]] = setOpenGraph(@, og)],
                 [blocks EXCEPT !["openGraph"][og] = "original"], held)
    /\ outcome' = Outcome("setOpenGraph", x, "ok", 0)
    /\ UNCHANGED <<managerVars, validatorVars, derivedVars>>

Call_setTwitter(x) ==
    /\ Exists(x)
    /\ LET twitter == NewBlockRef("twitter", metadataOf[x])
       IN Commit(metadataOf,
                 [metaHeap EXCEPT ![metadataOf[x]] = setTwitter(@, twitter)],
                 [blocks EXCEPT !["twitter"][twitter] = "original"], held)
    /\ outcome' = Outcome("setTwitter", x, "ok", 0)
    /\ UNCHANGED <<managerVars, validatorVars, derivedVars>>

Call_setSchema(x) ==
    /\ Exists(x)
    /\ LET schema == NewBlockRef("schema", metadataOf[x])
       IN Commit(metadataOf,
                 [metaHeap EXCEPT ![metadataOf[x]] = setSchema(@, schema)],
                 [blocks EXCEPT !["schema"][schema] = "original"], held)
    /\ outcome' = Outcome("setSchema", x, "ok", 0)
    /\ UNCHANGED <<managerVars, validatorVars, derivedVars>>

\* build(): throw, or return this.metadata itself.  The caller keeps the
\* reference returned (keep) or uses it at once and lets it go.
Call_build(x, keep) ==
    /\ Exists(x)
    /\ IF BuildThrows(Metadata(x))
       THEN /\ outcome' = Outcome("build", x, "throw", 0)
            /\ UNCHANGED <<metadataOf, metaHeap, blocks, held>>
       ELSE /\ Commit(metadataOf, metaHeap, blocks,
                      IF keep THEN metadataOf[x] ELSE held)
            /\ outcome' = Outcome("build", x, "ok", metadataOf[x])
    /\ UNCHANGED <<managerVars, validatorVars, derivedVars>>

\* getPartial(): return this.metadata itself
Call_getPartial(x, keep) ==
    /\ Exists(x)
    /\ Commit(metadataOf, metaHeap, blocks, IF keep THEN metadataOf[x] ELSE held)
    /\ outcome' = Outcome("getPartial", x, "ok", metadataOf[x])
    /\ UNCHANGED <<managerVars, validatorVars, derivedVars>>

\* reset(): this.metadata = {}
Call_reset(x) ==
    /\ Exists(x)
    /\ LET m == NewMetaRef(x)
       IN Commit([metadataOf EXCEPT ![x] = m],
                 [metaHeap EXCEPT ![m] = EmptyMetadata], blocks, held)
    /\ outcome' = Outcome("reset", x, "ok", 0)
    /\ UNCHANGED <<managerVars, validatorVars, derivedVars>>

\* c = b.clone()
Call_clone ==
    /\ Exists("b")
    /\ ~Exists("c")
    /\ LET m == NewMetaRef("c")
       IN Commit([metadataOf EXCEPT !["c"] = m],
                 [metaHeap EXCEPT ![m] = clone(Metadata("b"))], blocks, held)
    /\ outcome' = Outcome("clone", "b", "ok", 0)
    /\ UNCHANGED <<managerVars, validatorVars, derivedVars>>

\* the caller writes a property of a nested object of the metadata it holds,
\* as in builder.getPartial().schema.headline = "changed"
CallerMutatesBlock ==
    /\ held # 0
    /\ \E f \in BlockFields :
          /\ metaHeap[held][f] # None
          /\ blocks' = [blocks EXCEPT ![f][Val(metaHeap[held][f])] = "changed"]
    /\ outcome' = Outcome("mutate", "-", "ok", held)
    /\ UNCHANGED <<metadataOf, metaHeap, held, managerVars, validatorVars, derivedVars>>

(***************************************************************************)
(* The specifications.  Each one runs one component; the others rest in    *)
(* their initial state.                                                    *)
(***************************************************************************)
ManagerIdle ==
    /\ input = <<>>
    /\ heap = <<Constructor(<<>>)>>
    /\ ret = Returned("none", {}, None)
    /\ related = <<>>
    /\ last = Called("constructor", None)
    /\ mutations = 0


(***************************************************************************)
(* ContentValidator.validatePost.  A post's fields may be missing (None);  *)
(* a timestamp is an integer; `now` is the clock read during the call.     *)
(***************************************************************************)
IsWhitespace(c) == c = " "

\* String.prototype.trim
RECURSIVE TrimStart(_)
TrimStart(s) ==
    IF s # <<>> /\ IsWhitespace(Head(s)) THEN TrimStart(Tail(s)) ELSE s
RECURSIVE TrimEnd(_)
TrimEnd(s) ==
    IF s # <<>> /\ IsWhitespace(s[Len(s)])
    THEN TrimEnd(SubSeq(s, 1, Len(s) - 1)) ELSE s
Trim(s) == TrimEnd(TrimStart(s))

TitleRequired == "Title is required and cannot be empty"
DescriptionRequired == "Description is required and cannot be empty"
PubDateRequired == "Publication date is required"
ModifiedBeforePublished == "Modified date cannot be before publication date"
TitleTooLong == "Title is longer than recommended (100 characters)"
DescriptionTooLong == "Description is longer than recommended (200 characters)"
DescriptionTooShort == "Description is shorter than recommended (50 characters)"
NoTags == "Post should have at least one tag"
TooManyTags == "Too many tags (recommended: 3-5 tags)"
FutureDate == "Publication date is in the future for a non-draft post"

MaxTitleLength == 100
MaxDescriptionLength == 200
MinDescriptionLength == 50
MaxTagCount == 10

When(cond, message) == IF cond THEN <<message>> ELSE <<>>

\* the pushes to `errors`, in the order the code makes them
ValidationErrors(post) ==
    When(Falsy(post.title) \/ Len(Trim(Val(post.title))) = 0, TitleRequired)
    \o When(Falsy(post.description) \/ Len(Trim(Val(post.description))) = 0,
            DescriptionRequired)
    \o When(post.pubDatetime = None, PubDateRequired)
    \o When(/\ post.pubDatetime # None
            /\ post.modDatetime # None
            /\ Val(post.modDatetime) < Val(post.pubDatetime),
            ModifiedBeforePublished)

\* the pushes to `warnings`, in the order the code makes them
ValidationWarnings(post, now) ==
    When(~Falsy(post.title) /\ Len(Val(post.title)) > MaxTitleLength, TitleTooLong)
    \o When(~Falsy(post.description)
              /\ Len(Val(post.description)) > MaxDescriptionLength,
            DescriptionTooLong)
    \o When(~Falsy(post.description)
              /\ Len(Val(post.description)) < MinDescriptionLength,
            DescriptionTooShort)
    \o When(post.tags = None \/ Len(Val(post.tags)) = 0, NoTags)
    \o When(post.tags # None /\ Len(Val(post.tags)) > MaxTagCount, TooManyTags)
    \o When(/\ post.pubDatetime # None
            /\ Val(post.pubDatetime) > now
            /\ post.draft # Some(TRUE),
            FutureDate)

\* (mutant) a post with warnings is reported invalid
validatePost_WarningsInvalidate(post, now) ==
    [isValid |-> Len(ValidationErrors(post)) = 0
                    /\ Len(ValidationWarnings(post, now)) = 0,
     errors |-> ValidationErrors(post),
     warnings |-> ValidationWarnings(post, now)]

validatePost(post, now) ==
    [isValid |-> Len(ValidationErrors(post)) = 0,
     errors |-> ValidationErrors(post),
     warnings |-> ValidationWarnings(post, now)]

\* the posts validatePost is tried on
Chars(c, n) == [i \in 1..n |-> c]
TitleInputs ==
    {None, Some(<<>>), Some(<<" ">>), Some(<<" ", "T", " ">>),
     Some(Chars("t", 100)), Some(Chars("t", 101)), Some(Chars("t", 150))}
DescriptionInputs ==
    {None, Some(<<>>), Some(<<" ", " ">>), Some(Chars("d", 49)),
     Some(Chars("d", 50)), Some(Chars("d", 200)), Some(Chars("d", 201))}
TimeInputs == 1..3
TagsInputs == {None} \cup {Some(Chars(Str1("a"), n)) : n \in {0, 1, 10, 11}}
DraftInputs == {None, Some(FALSE), Some(TRUE)}

\* findDuplicateTitles and sanitizeTags not in use
StaticsIdle ==
    /\ vposts = <<>>
    /\ vduplicates = None
    /\ vtags = <<>>
    /\ vsanitized = None

ValidatorInit ==
    /\ StaticsIdle
    /\ vpost \in [title : TitleInputs, description : DescriptionInputs,
                  pubDatetime : {None} \cup {Some(t) : t \in TimeInputs},
                  modDatetime : {None} \cup {Some(t) : t \in TimeInputs},
                  tags : TagsInputs, draft : DraftInputs]
    /\ vnow = 2
    /\ vresult = None

ValidatorIdle ==
    /\ StaticsIdle
    /\ vpost = [title |-> None, description |-> None, pubDatetime |-> None,
                modDatetime |-> None, tags |-> None, draft |-> None]
    /\ vnow = 2
    /\ vresult = None

Call_validatePost ==
    /\ vresult = None
    /\ vresult' = Some(validatePost(vpost, vnow))
    /\ UNCHANGED <<vpost, vnow, staticVars, managerVars, builderVars>>

ValidatorNext == Call_validatePost

(***************************************************************************)
(* ContentValidator.findDuplicateTitles.  A Map is the sequence of its     *)
(* entries in insertion order; the posts are given by their titles and a   *)
(* post object is identified by its position in the input.                 *)
(***************************************************************************)
MapHas(map, key) == \E i \in DOMAIN map : map[i].key = key
MapIndex(map, key) == CHOOSE i \in DOMAIN map : map[i].key = key

\* Map.prototype.get
MapGet(map, key) ==
    IF MapHas(map, key) THEN Some(map[MapIndex(map, key)].value) ELSE None

\* Map.prototype.set: an existing key keeps its place
MapSet(map, key, value) ==
    IF MapHas(map, key)
    THEN [map EXCEPT ![MapIndex(map, key)].value = value]
    ELSE Append(map, [key |-> key, value |-> value])

\* post.data.title.toLowerCase().trim()
NormalizedTitle(title) == Trim(ToLowerCase(title))

\* the forEach that fills titleMap, from post i on
RECURSIVE TitleMapFrom(_, _, _)
TitleMapFrom(titleMap, posts, i) ==
    IF i > Len(posts) THEN titleMap
    ELSE LET title == NormalizedTitle(posts[i])
             existing == OrDefault(MapGet(titleMap, title), <<>>)
         IN TitleMapFrom(MapSet(titleMap, title, Append(existing, i)), posts, i + 1)

\* (mutant) groups of a single post are returned too
findDuplicateTitles_KeepSingles(posts) == TitleMapFrom(<<>>, posts, 1)

IsDuplicateGroup(entry) == Len(entry.value) > 1

findDuplicateTitles(posts) ==
    SelectSeq(TitleMapFrom(<<>>, posts, 1), IsDuplicateGroup)

\* the titles findDuplicateTitles is tried on
DuplicateTitleInputs ==
    {<<"I", "n", "t", "r", "o">>, <<"i", "n", "t", "r", "o", " ">>,
     <<" ", "I", "N", "T", "R", "O">>, <<"O", "t", "h", "e", "r">>, <<>>, <<" ">>}

DuplicatesInit ==
    /\ vpost = [title |-> None, description |-> None, pubDatetime |-> None,
                modDatetime |-> None, tags |-> None, draft |-> None]
    /\ vnow = 2
    /\ vresult = None
    /\ vposts \in UNION {[1..n -> DuplicateTitleInputs] : n \in 0..MaxPosts}
    /\ vduplicates = None
    /\ vtags = <<>>
    /\ vsanitized = None

Call_findDuplicateTitles ==
    /\ vduplicates = None
    /\ vduplicates' = Some(findDuplicateTitles(vposts))
    /\ UNCHANGED <<vpost, vnow, vresult, vposts, vtags, vsanitized,
                   managerVars, builderVars>>

(***************************************************************************)
(* ContentValidator.sanitizeTag and sanitizeTags.                          *)
(***************************************************************************)
LowerLetters ==
    {"a", "b", "c", "d", "e", "f", "g", "h", "i", "j", "k", "l", "m", "n", "o",
     "p", "q", "r", "s", "t", "u", "v", "w", "x", "y", "z"}
Digits == {"0", "1", "2", "3", "4", "5", "6", "7", "8", "9"}

\* the characters /[^a-z0-9\s-]/ does not match
KeptBySanitize(c) == c \in LowerLetters \cup Digits \/ IsWhitespace(c) \/ c = "-"

\* .replace(/[^a-z0-9\s-]/g, "")
StripDisallowed(s) == SelectSeq(s, KeptBySanitize)

\* .replace(/\s+/g, "-")
RECURSIVE WhitespaceRunsToHyphen(_)
WhitespaceRunsToHyphen(s) ==
    IF s = <<>> THEN <<>>
    ELSE IF IsWhitespace(Head(s))
         THEN <<"-">> \o WhitespaceRunsToHyphen(TrimStart(s))
         ELSE <<Head(s)>> \o WhitespaceRunsToHyphen(Tail(s))

\* .replace(/-+/g, "-")
RECURSIVE CollapseHyphens(_)
CollapseHyphens(s) ==
    IF s = <<>> THEN <<>>
    ELSE IF Len(s) >= 2 /\ s[1] = "-" /\ s[2] = "-"
         THEN CollapseHyphens(Tail(s))
         ELSE <<Head(s)>> \o CollapseHyphens(Tail(s))

\* (mutant) repeated hyphens are left as they are
sanitizeTag_KeepHyphenRuns(tag) ==
    WhitespaceRunsToHyphen(StripDisallowed(Trim(ToLowerCase(tag))))

sanitizeTag(tag) ==
    CollapseHyphens(WhitespaceRunsToHyphen(StripDisallowed(Trim(ToLowerCase(tag)))))

IsNonEmptyTag(tag) == Len(tag) > 0

sanitizeTags(tags) ==
    SelectSeq([i \in 1..Len(tags) |-> sanitizeTag(tags[i])], IsNonEmptyTag)

\* the tags sanitizeTags is tried on: every string over a small alphabet,
\* one at a time, and arrays of a few longer tags
TagAlphabet == {"a", "B", "1", " ", "-", "!"}
TagStrings == UNION {[1..n -> TagAlphabet] : n \in 0..MaxTagLength}
LongTags ==
    {<<"H", "e", "l", "l", "o", " ", "W", "o", "r", "l", "d", "!">>,
     <<" ", " ", " ">>,
     <<"a", " ", "-", "-", " ", "B", "!">>,
     <<"!", "-", "!">>}

SanitizeInit ==
    /\ vpost = [title |-> None, description |-> None, pubDatetime |-> None,
                modDatetime |-> None, tags |-> None, draft |-> None]
    /\ vnow = 2
    /\ vresult = None
    /\ vposts = <<>>
    /\ vduplicates = None
    /\ vtags \in {<<t>> : t \in TagStrings}
                   \cup UNION {[1..n -> LongTags] : n \in 0..MaxTags}
    /\ vsanitized = None

Call_sanitizeTags ==
    /\ vsanitized = None
    /\ vsanitized' = Some(sanitizeTags(vtags))
    /\ UNCHANGED <<vpost, vnow, vresult, vposts, vduplicates, vtags,
                   managerVars, builderVars>>

(***************************************************************************)
(* SEOMetadataBuilder.fromBlogPost.  The nested objects are written as     *)
(* records: the builder made here is handed to build() at once, no other   *)
(* reference to its objects exists.  SITE comes from the site's config.    *)
(***************************************************************************)
SiteWebsite == <<"h", "t", "t", "p", "s", ":", "/", "/", "s", "i", "t", "e", ".", "t", "e", "s", "t", "/">>
SiteTitle == <<"S", "i", "t", "e">>

\* Date.prototype.toISOString, for the days the model uses as timestamps
ToISOString(t) ==
    <<"2", "0", "2", "4", "-", "0", "1", "-", "0">> \o <<CASE t = 1 -> "1" [] t = 2 -> "2" [] OTHER -> "3">>
      \o <<"T", "0", "0", ":", "0", "0", ":", "0", "0", ".", "0", "0", "0", "Z">>

\* const url = `${baseUrl}/posts/${post.id}`
PostUrl(post, baseUrl) == baseUrl \o <<"/", "p", "o", "s", "t", "s", "/">> \o post.id

\* const imageUrl = post.data.ogImage ? `${baseUrl}${ogImage}` : `${baseUrl}/og.png`
ImageUrl(post, baseUrl) ==
    IF Falsy(post.ogImage) THEN baseUrl \o <<"/", "o", "g", ".", "p", "n", "g">>
    ELSE baseUrl \o Val(post.ogImage)

\* (mutant) the post's own canonical URL is ignored
CanonicalFor_AlwaysDefault(post, baseUrl) == PostUrl(post, baseUrl)

\* post.data.canonicalURL || url
CanonicalFor(post, baseUrl) ==
    IF Falsy(post.canonicalURL) THEN PostUrl(post, baseUrl)
    ELSE Val(post.canonicalURL)

OpenGraphFor(post, baseUrl) ==
    [title |-> post.title, description |-> post.description,
     image |-> ImageUrl(post, baseUrl), type |-> "article"]

TwitterFor(post) ==
    [card |-> "summary_large_image", site |-> SiteWebsite, creator |-> post.author]

\* const schema = { ... }; dateModified is spread in only when
\* post.data.modDatetime is truthy
SchemaFor(post, baseUrl) ==
    [context |-> "https://schema.org",
     type |-> "BlogPosting",
     headline |-> post.title,
     description |-> post.description,
     image |-> ImageUrl(post, baseUrl),
     datePublished |-> ToISOString(post.pubDatetime),
     dateModified |-> IF post.modDatetime = None THEN None
                      ELSE Some(ToISOString(Val(post.modDatetime))),
     author |-> [type |-> "Person", name |-> post.author],
     publisher |-> [type |-> "Organization", name |-> SiteTitle,
                    logo |-> [type |-> "ImageObject",
                              url |-> baseUrl \o <<"/", "f", "a", "v", "i", "c", "o", "n", ".", "s", "v", "g">>]]]

\* the metadata of the builder fromBlogPost returns
fromBlogPost(post, baseUrl) ==
    setSchema(
      setTwitter(
        setOpenGraph(
          setCanonical(
            setBasicMetadata(EmptyMetadata, post.title, post.description),
            CanonicalFor(post, baseUrl)),
          OpenGraphFor(post, baseUrl)),
        TwitterFor(post)),
      SchemaFor(post, baseUrl))

\* how a call ended: it returned value, or it threw
Ended(status, value) == [status |-> status, value |-> value]

\* build() on a builder whose metadata is m
build(m) == IF BuildThrows(m) THEN Ended("throw", None) ELSE Ended("ok", Some(m))

\* the posts and base URLs fromBlogPost is tried on
PostIdInputs == {<<"p", "1">>, <<"a", "/", "b">>}
PostTitleInputs == {<<>>, <<" ">>, <<"T">>}
PostDescriptionInputs == {<<>>, <<"D">>}
CanonicalInputs == {None, Some(<<>>), Some(<<"h", "t", "t", "p", "s", ":", "/", "/", "c", ".", "t", "e", "s", "t", "/", "p">>)}
OgImageInputs == {None, Some(<<"/", "i", ".", "p", "n", "g">>)}
PubInputs == {1, 2}
ModInputs == {None, Some(2), Some(3)}
BaseUrlInputs == {<<>>, <<"h", "t", "t", "p", "s", ":", "/", "/", "x", ".", "t", "e", "s", "t">>, <<"h", "t", "t", "p", "s", ":", "/", "/", "x", ".", "t", "e", "s", "t", "/">>}

FromPostInit ==
    /\ metadataOf = [x \in Builders |-> IF x = "b" THEN 1 ELSE 0]
    /\ metaHeap = [i \in MetaRefs |-> EmptyMetadata]
    /\ blocks = [f \in BlockFields |-> [n \in BlockRefs |-> "free"]]
    /\ held = 0
    /\ outcome = Outcome("new", "b", "ok", 0)
    /\ fpost \in [id : PostIdInputs, title : PostTitleInputs,
                  description : PostDescriptionInputs, author : {<<"a">>},
                  canonicalURL : CanonicalInputs, ogImage : OgImageInputs,
                  pubDatetime : PubInputs, modDatetime : ModInputs]
    /\ fbase \in BaseUrlInputs
    /\ fbuilt = None

\* SEOMetadataBuilder.fromBlogPost(post, baseUrl).build()
Call_fromBlogPost_build ==
    /\ fbuilt = None
    /\ fbuilt' = Some(build(fromBlogPost(fpost, fbase)))
    /\ UNCHANGED <<metadataOf, metaHeap, blocks, held, outcome, fpost, fbase,
                   managerVars, validatorVars>>

BuilderIdle == BuilderInit

Init == ManagerInit(ManagerKeys) /\ BuilderIdle /\ ValidatorIdle

Spec == Init /\ [][ManagerNext]_vars

\* findRelatedPosts with every reference post and every limit
RelatedNext == Call_findRelatedPostsAny

InitRelated == ManagerInit(Keys) /\ BuilderIdle /\ ValidatorIdle

SpecRelated == InitRelated /\ [][RelatedNext]_vars

TitleArgs == {<<>>, <<"T">>}
DescriptionArgs == {<<>>, <<"D">>}
UrlArgs == {<<"u">>}

\* one builder: every setter, reset, getPartial and build
BuilderNext ==
    \/ \E t \in TitleArgs, d \in DescriptionArgs : Call_setBasicMetadata("b", t, d)
    \/ \E url \in UrlArgs : Call_setCanonical("b", url)
    \/ Call_setOpenGraph("b")
    \/ Call_setTwitter("b")
    \/ Call_setSchema("b")
    \/ Call_build("b", FALSE)
    \/ Call_getPartial("b", FALSE)
    \/ Call_reset("b")

InitBuilder == ManagerIdle /\ BuilderInit /\ ValidatorIdle

SpecBuilder == InitBuilder /\ [][BuilderNext]_vars

\* a builder and its clone, and a caller who writes into the nested objects
\* of the metadata it was handed.  The original is set up before the clone
\* is taken; the clone is then customised.
CloneNext ==
    \/ ~Exists("c") /\ Call_setBasicMetadata("b", <<"T">>, <<"D">>)
    \/ ~Exists("c") /\ Call_setOpenGraph("b")
    \/ ~Exists("c") /\ Call_setTwitter("b")
    \/ ~Exists("c") /\ Call_setSchema("b")
    \/ Call_clone
    \/ Call_setOpenGraph("c")
    \/ Call_setTwitter("c")
    \/ Call_setSchema("c")
    \/ \E x \in Builders : Call_getPartial(x, TRUE)
    \/ \E x \in Builders : Call_build(x, TRUE)
    \/ CallerMutatesBlock

SpecClone == InitBuilder /\ [][CloneNext]_vars

\* one builder whose caller keeps the metadata object a successful build()
\* returned, and goes on using the builder
FinalNext ==
    \/ \E t \in TitleArgs, d \in DescriptionArgs : Call_setBasicMetadata("b", t, d)
    \/ \E url \in UrlArgs : Call_setCanonical("b", url)
    \/ Call_setOpenGraph("b")
    \/ Call_setTwitter("b")
    \/ Call_setSchema("b")
    \/ Call_build("b", TRUE)
    \/ Call_reset("b")

SpecFinal == InitBuilder /\ [][FinalNext]_vars

InitValidator == ManagerIdle /\ BuilderIdle /\ ValidatorInit

SpecValidator == InitValidator /\ [][ValidatorNext]_vars

DuplicatesNext == Call_findDuplicateTitles

InitDuplicates == ManagerIdle /\ BuilderIdle /\ DuplicatesInit

SpecDuplicates == InitDuplicates /\ [][DuplicatesNext]_vars

SanitizeNext == Call_sanitizeTags

InitSanitize == ManagerIdle /\ BuilderIdle /\ SanitizeInit

SpecSanitize == InitSanitize /\ [][SanitizeNext]_vars

FromPostNext == Call_fromBlogPost_build

InitFromPost == ManagerIdle /\ FromPostInit /\ ValidatorIdle

SpecFromPost == InitFromPost /\ [][FromPostNext]_vars

(***************************************************************************)
(* Claims about findRelatedPosts, checked under SpecRelated.               *)
(***************************************************************************)
RelatedCalled == last.op = "findRelatedPosts"
RefPost == last.arg.currentPost
RefTags == Post(RefPost).tags
RefId == Post(RefPost).id
RequestedLimit == OrDefault(last.arg.limit, 3)
TagSet(k) == Range(Post(k).tags)
SharesTag(k) == TagSet(k) \cap Range(RefTags) # {}
PositionIn(arr, x) == CHOOSE i \in DOMAIN arr : arr[i] = x
ScoreAt(i) == related[i].relevanceScore

\* the positions of this.posts that hold a candidate with a positive score
Qualifying ==
    {j \in DOMAIN this_posts :
        /\ Post(this_posts[j]).id # RefId
        /\ NumGt(Divide(Len(SelectSeq(Post(this_posts[j]).tags,
                                      LAMBDA t : t \in Range(RefTags))),
                        Len(RefTags)), Zero)}

\* C2: a reference post with an empty tag list gives an empty result, for
\* every collection and every limit; no entry with a NaN score is returned.
C2_EmptyTagsGiveNoRelatedPosts ==
    (RelatedCalled /\ RefTags = <<>>) => related = <<>>

\* C2 witness: the reference has no tags and the collection holds two other
\* posts, one of them with tags: 0 / 0 was computed and nothing returned.
C2_Witness ==
    /\ RelatedCalled
    /\ RefTags = <<>>
    /\ related = <<>>
    /\ Cardinality({j \in DOMAIN this_posts : Post(this_posts[j]).id # RefId}) >= 2
    /\ \E j \in DOMAIN this_posts :
          Post(this_posts[j]).id # RefId /\ Post(this_posts[j]).tags # <<>>

\* C3: for a reference with at least one tag, every returned relevanceScore
\* is |tags(candidate) \cap tags(reference)| / |tags(reference)|, the tag
\* lists taken as sets, and lies in [0, 1].
C3_ScoreIsSetFractionInUnitRange ==
    (RelatedCalled /\ Len(RefTags) >= 1) =>
        \A i \in DOMAIN related :
            /\ NumEq(ScoreAt(i),
                     [num |-> Cardinality(TagSet(related[i].post) \cap Range(RefTags)),
                      den |-> Cardinality(Range(RefTags))])
            /\ NumGe(ScoreAt(i), Zero)
            /\ NumGe(One, ScoreAt(i))

\* C4: the result is ordered by non-increasing relevanceScore, results with
\* equal scores keep the order their posts have in this.posts, and the
\* result is the first min(limit, k) entries of the ranking of the k
\* qualifying candidates (limit defaults to 3; limit 0 gives the empty list).
C4_RankedStableAndTruncated ==
    RelatedCalled =>
        /\ Len(related) = Min(RequestedLimit, Cardinality(Qualifying))
        /\ \A i \in DOMAIN related :
              \E j \in Qualifying : related[i].post = this_posts[j]
        /\ \A i, j \in DOMAIN related :
              i < j =>
                /\ NumGe(ScoreAt(i), ScoreAt(j))
                /\ NumEq(ScoreAt(i), ScoreAt(j)) =>
                      PositionIn(this_posts, related[i].post)
                        < PositionIn(this_posts, related[j].post)
        /\ \A j \in Qualifying :
              (\A i \in DOMAIN related : related[i].post # this_posts[j]) =>
                 \A i \in DOMAIN related :
                    LET s == RelevanceScore(this_posts[j], RefTags)
                    IN \/ NumGt(ScoreAt(i), s)
                       \/ /\ NumEq(ScoreAt(i), s)
                          /\ PositionIn(this_posts, related[i].post) < j

\* C4 witness: three candidates qualify, limit 2 cuts one off, the two
\* returned tie, and the first post of this.posts was outranked by both.
C4_Witness ==
    /\ RelatedCalled
    /\ last.arg.limit = Some(2)
    /\ Cardinality(Qualifying) = 3
    /\ Len(related) = 2
    /\ NumEq(ScoreAt(1), ScoreAt(2))
    /\ 1 \in Qualifying
    /\ \A i \in DOMAIN related : related[i].post # this_posts[1]

\* C5: no result is the reference post (or a post with its id) or a post
\* sharing no tag with it; with limit >= the collection size there is
\* exactly one result for every other post that shares a tag.
C5_ExcludesReferenceAndUnrelated ==
    RelatedCalled =>
        /\ \A i \in DOMAIN related :
              /\ Post(related[i].post).id # RefId
              /\ SharesTag(related[i].post)
        /\ RequestedLimit >= Len(this_posts) =>
              /\ \A j \in DOMAIN this_posts :
                    (Post(this_posts[j]).id # RefId /\ SharesTag(this_posts[j])) =>
                        Cardinality({i \in DOMAIN related :
                                        related[i].post = this_posts[j]}) = 1
              /\ Len(related) =
                    Cardinality({j \in DOMAIN this_posts :
                        Post(this_posts[j]).id # RefId /\ SharesTag(this_posts[j])})

\* C5 witness: reference tags [a, b], limit 3, against posts tagged [a],
\* [a, b] and [c]: two results, with scores 1.0 and 0.5 in this order.
C5_Witness ==
    /\ RelatedCalled
    /\ RefTags = <<Str1("a"), Str1("b")>>
    /\ last.arg.limit = Some(3)
    /\ Len(this_posts) = 3
    /\ {Post(this_posts[j]).tags : j \in DOMAIN this_posts}
          = {<<Str1("a")>>, <<Str1("a"), Str1("b")>>, <<Str1("c")>>}
    /\ Len(related) = 2
    /\ ScoreAt(1) = [num |-> 2, den |-> 2]
    /\ ScoreAt(2) = [num |-> 1, den |-> 2]
    /\ Post(related[2].post).tags = <<Str1("a")>>

(***************************************************************************)
(* Claims about the manager's sequence, checked under Spec.                *)
(***************************************************************************)
\* C7: the internal sequence is never changed after construction, whatever
\* queries run and whatever the caller does to the collections returned.
C7_InternalSequenceNeverChanges == this_posts = Constructor(input)

C9_RecentIsPrefix ==
    (last.op = "getRecentPosts" /\ OrDefault(last.arg, 5) >= 0) =>
        LET n == OrDefault(last.arg, 5)
            result == heap[CHOOSE r \in ret.refs : TRUE]
        IN /\ ret.kind = "array"
           /\ Len(result) = Min(n, Len(this_posts))
           /\ \A i \in DOMAIN result : result[i] = this_posts[i]
           /\ n = 0 => result = <<>>
           /\ n >= Len(this_posts) => result = this_posts

\* C9 witness: getRecentPosts(2) on three posts returned the first two.
C9_Witness ==
    /\ last.op = "getRecentPosts"
    /\ last.arg = Some(2)
    /\ Len(this_posts) = 3
    /\ heap[2] = <<this_posts[1], this_posts[2]>>

(***************************************************************************)
(* Claims about SEOMetadataBuilder.                                        *)
(***************************************************************************)
\* what builder x shows of its nested objects: per field, the content of
\* the object its metadata refers to
BlockView(x) ==
    [f \in BlockFields |->
        IF Metadata(x)[f] = None THEN "none" ELSE blocks[f][Val(Metadata(x)[f])]]

\* C1: clone() yields an independent copy: once c = b.clone() exists, a
\* write into a schema, openGraph or twitter object reached through one of
\* the two builders leaves what the other builder shows unchanged.
\* Checked under SpecClone.
C1_CloneIsIndependent ==
    [][\A x \in Builders :
          (/\ Exists("b") /\ Exists("c")
           /\ held = metadataOf[x]
           /\ CallerMutatesBlock)
          => \A y \in Builders \ {x} : BlockView(y)' = BlockView(y)]_vars

\* C6, as amended: build() on the builder fails exactly when its title or
\* its description is absent or the empty string; otherwise it returns the
\* builder's metadata object with the accumulated fields; a failing build()
\* changes nothing; after reset() no field is set.  Checked under SpecBuilder.
C6_BuildFailsIffTitleOrDescriptionFalsy ==
    [][/\ outcome'.op = "build" =>
            /\ outcome'.status = "throw" <=>
                  \/ Metadata("b").title \in {None, Some(<<>>)}
                  \/ Metadata("b").description \in {None, Some(<<>>)}
            /\ outcome'.status = "ok" =>
                  /\ outcome'.ref = metadataOf["b"]
                  /\ metaHeap'[outcome'.ref] = Metadata("b")
            /\ outcome'.status = "throw" =>
                  UNCHANGED <<metadataOf, metaHeap, blocks, held>>
       /\ outcome'.op = "reset" =>
            \A f \in DOMAIN EmptyMetadata : Metadata("b")'[f] = None]_vars

\* C6 witness: build() failed on a builder that holds a description and the
\* empty string as its title.
C6_Witness ==
    /\ outcome.op = "build"
    /\ outcome.status = "throw"
    /\ Metadata("b").title = Some(<<>>)
    /\ Metadata("b").description = Some(<<"D">>)

\* C6 as stated: build() fails exactly when the builder holds no title or no
\* description.
C6_BuildFailsIffTitleOrDescriptionAbsent ==
    [][outcome'.op = "build" =>
          (outcome'.status = "throw" <=>
              \/ Metadata("b").title = None
              \/ Metadata("b").description = None)]_vars

(***************************************************************************)
(* Claims about ContentValidator, checked under SpecValidator.             *)
(***************************************************************************)
\* missing, empty, or nothing but whitespace
Blank(o) == o = None \/ \A i \in DOMAIN Val(o) : Val(o)[i] = " "

\* missing or the empty string
MissingOrEmpty(o) == o = None \/ o = Some(<<>>)

C10_ErrorOrder ==
    <<TitleRequired, DescriptionRequired, PubDateRequired, ModifiedBeforePublished>>

\* the four error rules; trimmedDescription tells whether a description of
\* nothing but whitespace counts as empty
C10_RuleViolated(e, trimmedDescription) ==
    CASE e = TitleRequired -> Blank(vpost.title)
      [] e = DescriptionRequired ->
            IF trimmedDescription THEN Blank(vpost.description)
            ELSE MissingOrEmpty(vpost.description)
      [] e = PubDateRequired -> vpost.pubDatetime = None
      [] e = ModifiedBeforePublished ->
            /\ vpost.modDatetime # None
            /\ vpost.pubDatetime # None
            /\ Val(vpost.modDatetime) < Val(vpost.pubDatetime)

C10_Statement(trimmedDescription) ==
    vresult # None =>
        LET r == Val(vresult)
            Violated(e) == C10_RuleViolated(e, trimmedDescription)
        IN /\ r.isValid <=> (r.errors = <<>>)
           /\ r.errors = SelectSeq(C10_ErrorOrder, Violated)
           /\ (/\ vpost.title # None
               /\ Len(Val(vpost.title)) = 150
               /\ \A i \in DOMAIN C10_ErrorOrder : ~Violated(C10_ErrorOrder[i]))
              => /\ r.isValid
                 /\ TitleTooLong \in Range(r.warnings)

\* C10, as amended: isValid is true exactly when the error list is empty;
\* the error list holds, in the fixed order title, description, publish
\* timestamp, modification-before-publication, exactly the errors whose rule
\* is violated, where a title and a description are violated when missing,
\* empty or whitespace-only; warnings do not change isValid: a rule-abiding
\* post with a 150-character title is valid and carries the title-length
\* warning.
C10_ErrorsDecideValidity == C10_Statement(TRUE)

\* C10 witness: a post whose description is whitespace only and whose title
\* has 150 characters was validated: invalid by the description error alone,
\* with the title-length warning.
C10_Witness ==
    /\ vresult # None
    /\ vpost.title = Some(Chars("t", 150))
    /\ vpost.description = Some(<<" ", " ">>)
    /\ ~Val(vresult).isValid
    /\ Val(vresult).errors = <<DescriptionRequired>>
    /\ TitleTooLong \in Range(Val(vresult).warnings)

\* C10 as stated: the same, with the description rule violated only by a
\* missing or empty description.
C10_DescriptionErrorOnlyWhenMissingOrEmpty == C10_Statement(FALSE)

C11_WarningOrder ==
    <<TitleTooLong, DescriptionTooLong, DescriptionTooShort, NoTags, TooManyTags,
      FutureDate>>

\* number of tags of the validated post (a post without a tag list has none)
C11_TagCount == IF vpost.tags = None THEN 0 ELSE Len(Val(vpost.tags))

\* the six warning conditions; emptyIsShort tells whether the empty
\* description counts as shorter than 50 characters
C11_ConditionTrue(w, emptyIsShort) ==
    CASE w = TitleTooLong ->
            vpost.title # None /\ Len(Val(vpost.title)) > 100
      [] w = DescriptionTooLong ->
            vpost.description # None /\ Len(Val(vpost.description)) > 200
      [] w = DescriptionTooShort ->
            /\ vpost.description # None
            /\ Len(Val(vpost.description)) < 50
            /\ (emptyIsShort \/ Val(vpost.description) # <<>>)
      [] w = NoTags -> C11_TagCount = 0
      [] w = TooManyTags -> C11_TagCount > 10
      [] w = FutureDate ->
            /\ vpost.pubDatetime # None
            /\ Val(vpost.pubDatetime) > vnow
            /\ vpost.draft # Some(TRUE)

C11_Statement(emptyIsShort) ==
    vresult # None =>
        LET Holds(w) == C11_ConditionTrue(w, emptyIsShort)
        IN Val(vresult).warnings = SelectSeq(C11_WarningOrder, Holds)

\* C11: the warning list of validatePost holds, in the fixed order title too
\* long, description too long, description too short, no tags, too many
\* tags, future publish date of a non-draft, exactly the warnings whose
\* condition is true of the post; every description shorter than 50
\* characters, the empty string included, gets the too-short warning.
\* Checked under SpecValidator.
C11_WarningsExactlyByCondition == C11_Statement(TRUE)

\* the same with the empty description exempt from the too-short warning:
\* what validatePost does
C11_WarningsExceptEmptyDescription == C11_Statement(FALSE)

(***************************************************************************)
(* Claims about findDuplicateTitles, checked under SpecDuplicates.         *)
(***************************************************************************)
\* the positions of the posts whose normalized title is key, in order
C12_PostsTitled(key) ==
    LET Same(i) == NormalizedTitle(vposts[i]) = key
    IN SelectSeq([i \in 1..Len(vposts) |-> i], Same)

\* C12: findDuplicateTitles returns a mapping whose keys are exactly the
\* normalized (lower-cased, trimmed) titles carried by two or more input
\* posts; each value is the sequence of all input posts with that normalized
\* title in their original order; no group has fewer than two members and
\* no post is in two groups; "Intro", "intro ", "Other" give the single
\* group "intro" holding the first two posts.
C12_GroupsAreExactlyTheDuplicates ==
    vduplicates # None =>
        LET groups == Val(vduplicates)
        IN /\ \A g, h \in DOMAIN groups : groups[g].key = groups[h].key => g = h
           /\ {groups[g].key : g \in DOMAIN groups}
                = {NormalizedTitle(vposts[i]) : i \in
                     {i \in DOMAIN vposts :
                        \E j \in DOMAIN vposts :
                           /\ j # i
                           /\ NormalizedTitle(vposts[j]) = NormalizedTitle(vposts[i])}}
           /\ \A g \in DOMAIN groups :
                 /\ groups[g].value = C12_PostsTitled(groups[g].key)
                 /\ Len(groups[g].value) >= 2
           /\ \A i \in DOMAIN vposts :
                 Cardinality({g \in DOMAIN groups :
                                \E n \in DOMAIN groups[g].value :
                                   groups[g].value[n] = i}) <= 1
           /\ vposts = << <<"I", "n", "t", "r", "o">>,
                          <<"i", "n", "t", "r", "o", " ">>,
                          <<"O", "t", "h", "e", "r">> >>
              => groups = << [key |-> <<"i", "n", "t", "r", "o">>,
                              value |-> <<1, 2>>] >>

\* C12 witness: the posts titled "Intro", "Other", " INTRO" were grouped:
\* one group, "intro", holding the first and the third post.
C12_Witness ==
    /\ vduplicates # None
    /\ vposts = << <<"I", "n", "t", "r", "o">>, <<"O", "t", "h", "e", "r">>,
                   <<" ", "I", "N", "T", "R", "O">> >>
    /\ Val(vduplicates) = << [key |-> <<"i", "n", "t", "r", "o">>,
                              value |-> <<1, 3>>] >>

(***************************************************************************)
(* Claims about sanitizeTags, checked under SpecSanitize.                  *)
(***************************************************************************)
\* the positions of the input tags whose sanitized form is not empty
C13_KeptPositions ==
    LET Kept(i) == sanitizeTag(vtags[i]) # <<>>
    IN SelectSeq([i \in 1..Len(vtags) |-> i], Kept)

\* C13: sanitizeTags returns, in input order, sanitizeTag(t) for exactly the
\* elements t whose sanitized form is non-empty; every returned string is
\* made of a-z, 0-9 and '-' only, has no whitespace and no two adjacent
\* hyphens, and is a fixed point of sanitizeTag.
C13_SanitizedTagsAreCleanFixedPoints ==
    vsanitized # None =>
        LET out == Val(vsanitized)
        IN /\ Len(out) = Len(C13_KeptPositions)
           /\ \A n \in DOMAIN out : out[n] = sanitizeTag(vtags[C13_KeptPositions[n]])
           /\ \A n \in DOMAIN out :
                 /\ out[n] # <<>>
                 /\ \A i \in DOMAIN out[n] :
                       /\ out[n][i] \in LowerLetters \cup Digits \cup {"-"}
                       /\ out[n][i] # " "
                       /\ i > 1 => ~(out[n][i - 1] = "-" /\ out[n][i] = "-")
                 /\ sanitizeTag(out[n]) = out[n]

\* C13 witness: ["Hello World!", "   "] was sanitized to ["hello-world"].
C13_Witness ==
    /\ vsanitized # None
    /\ vtags = << <<"H", "e", "l", "l", "o", " ", "W", "o", "r", "l", "d", "!">>,
                  <<" ", " ", " ">> >>
    /\ Val(vsanitized)
         = << <<"h", "e", "l", "l", "o", "-", "w", "o", "r", "l", "d">> >>

(***************************************************************************)
(* Claims about SEOMetadataBuilder.fromBlogPost, checked under             *)
(* SpecFromPost.                                                           *)
(***************************************************************************)
C14_DefaultCanonical ==
    fbase \o <<"/", "p", "o", "s", "t", "s", "/">> \o fpost.id

\* what C14 says of a post with a non-empty title and description;
\* emptyIsNone tells whether an empty canonical URL counts as none
C14_Statement(emptyIsNone) ==
    (fbuilt # None /\ fpost.title # <<>> /\ fpost.description # <<>>) =>
        /\ Val(fbuilt).status = "ok"
        /\ LET m == Val(Val(fbuilt).value)
               own == /\ fpost.canonicalURL # None
                      /\ (emptyIsNone => fpost.canonicalURL # Some(<<>>))
           IN /\ m.canonical
                   = Some(IF own THEN Val(fpost.canonicalURL) ELSE C14_DefaultCanonical)
              /\ m.schema # None
              /\ Val(m.schema).type = "BlogPosting"
              /\ Val(m.schema).dateModified # None <=> fpost.modDatetime # None

\* C14, as amended: for every post with a non-empty title and description
\* and every base URL, fromBlogPost(post, baseUrl).build() succeeds; its
\* canonical URL is the post's own canonical URL when the post specifies a
\* non-empty one, and baseUrl + "/posts/" + post.id otherwise; the
\* structured-data block has type "BlogPosting" and has a modification date
\* exactly when the post has a modification timestamp.
C14_FromPostBuildsCanonicalAndSchema == C14_Statement(TRUE)

\* C14 witness: a post with the empty string as canonical URL and a
\* modification timestamp was built from: the canonical URL is the default
\* one and the schema carries the modification date.
C14_Witness ==
    /\ fbuilt # None
    /\ Val(fbuilt).status = "ok"
    /\ fpost.canonicalURL = Some(<<>>)
    /\ fpost.modDatetime # None
    /\ fpost.id = <<"p", "1">>
    /\ fbase = <<"h", "t", "t", "p", "s", ":", "/", "/", "x", ".", "t", "e", "s", "t">>
    /\ Val(Val(fbuilt).value).canonical
         = Some(<<"h", "t", "t", "p", "s", ":", "/", "/", "x", ".", "t", "e", "s", "t",
                  "/", "p", "o", "s", "t", "s", "/", "p", "1">>)
    /\ Val(Val(Val(fbuilt).value).schema).dateModified # None

\* C14 as stated: the canonical URL is the post's own whenever the post
\* specifies one, the empty string included.
C14_CanonicalIsPostsOwnWheneverSpecified == C14_Statement(FALSE)

(***************************************************************************)
(* Claims about the object build() returns, checked under SpecFinal, where *)
(* `held` is the metadata object the last successful build() returned.     *)
(***************************************************************************)
\* the fields of metadata object m, nested objects by their content
C15_FieldsOf(m) ==
    [f \in DOMAIN EmptyMetadata |->
        IF f \in BlockFields /\ metaHeap[m][f] # None
        THEN Some(blocks[f][Val(metaHeap[m][f])])
        ELSE metaHeap[m][f]]

\* C15: a metadata object returned by a successful build() is final: no
\* later setBasicMetadata, setCanonical, setOpenGraph, setTwitter, setSchema
\* or reset on the same builder changes any field of that object.
C15_BuiltMetadataIsFinal ==
    [][(held # 0 /\ held' = held) => C15_FieldsOf(held)' = C15_FieldsOf(held)]_vars

====
